---- MODULE Spec2Model ----
(***************************************************************************)
(* Registration intake service: the register route (uploadMiddleware,      *)
(* registrationValidation, createRegistration), the Registration model and *)
(* the admin handlers updateRegistrationStatus, deleteRegistration and     *)
(* deleteFile, over a document store and an upload directory.              *)
(*                                                                         *)
(* One step of a register request is the code between two awaits of a      *)
(* database operation; file writes and unlinks of a request touch only     *)
(* paths of that request and are folded into the step that issues them.    *)
(* An admin handler runs as one step.                                      *)
(*                                                                         *)
(* Spec:      NumReqs register requests, interleaved at their database     *)
(*            operations, within one value of the clock.                   *)
(* SpecAdmin: NumAdminReqs register requests, the admin handlers and the   *)
(*            clock.                                                       *)
(* SpecFiles: NumAdminReqs register requests, the file handlers and the    *)
(*            two deletions, within one value of the clock.                *)
(* SpecFilter: fileFilter and createStorage.filename on single file parts. *)
(* SpecCollide: NumReqs register requests whose file parts draw their      *)
(*            random id from a set of two.                                 *)
(* SpecAadhar: NumReqs register requests over Aadhaar numbers in the       *)
(*            written forms clients send.                                  *)
(* SpecFaults: NumAdminReqs register requests and the two deletions with   *)
(*            unlinks that throw and files that vanish.                    *)
(* SpecRate:  rateLimitValidation alone, on the requests of two clients,   *)
(*            and the clock.                                               *)
(* SpecRespond: every handler from its request to its response, the piped  *)
(*            downloads chunk by chunk, with fair scheduling.              *)
(* SpecRoute: NumReqs register requests from the route's limiter on.       *)
(* SpecNormal: NumReqs register requests over emails, phone numbers and    *)
(*            Aadhaar numbers written in other ways.                       *)
(***************************************************************************)
EXTENDS Integers, Sequences, FiniteSets, TLC

(* ------------------------------ bounds -------------------------------- *)

NumReqs == 2        \* register requests in flight together (Spec)
NumAdminReqs == 1   \* register requests beside the admin handlers (SpecAdmin)
MaxTime == 1        \* the clock runs from 0 to MaxTime (SpecAdmin)

Reqs == 1..NumReqs
AdminReqs == 1..NumAdminReqs

(* --------------------------- program constants ------------------------ *)

AadharMaxSize == 5      \* MiB, maxSizes.aadharFile
SignatureMaxSize == 2   \* MiB, maxSizes.signatureFile

\* undefined, where an object (a file, a body, a response) is expected
None == [undefined |-> TRUE]
\* undefined, where a string is expected
Undefined == "undefined"

FileFields == {"aadharFile", "signatureFile"}

\* registrationSchema.status.enum
StatusEnum == {"pending", "approved", "rejected", "under_review"}

\* validStatuses of updateRegistrationStatus
validStatuses == {"Pending", "Active", "Completed"}

(* ------------------------------ strings ------------------------------- *)
\* A string is a sequence of one-character strings.

Digits == {"0", "1", "2", "3", "4", "5", "6", "7", "8", "9"}
LowerLetters ==
    <<"a", "b", "c", "d", "e", "f", "g", "h", "i", "j", "k", "l", "m",
      "n", "o", "p", "q", "r", "s", "t", "u", "v", "w", "x", "y", "z">>
UpperLetters ==
    <<"A", "B", "C", "D", "E", "F", "G", "H", "I", "J", "K", "L", "M",
      "N", "O", "P", "Q", "R", "S", "T", "U", "V", "W", "X", "Y", "Z">>
LowerSet == {LowerLetters[i] : i \in DOMAIN LowerLetters}
UpperSet == {UpperLetters[i] : i \in DOMAIN UpperLetters}
IsLower(c) == c \in LowerSet
IsUpper(c) == c \in UpperSet
\* the lower-case letter of each upper-case letter
Lowered ==
    [c \in UpperSet |->
        LowerLetters[CHOOSE i \in DOMAIN UpperLetters : UpperLetters[i] = c]]
LowerChar(c) == IF IsUpper(c) THEN Lowered[c] ELSE c
IsAlnum(c) == c \in Digits \/ IsLower(c) \/ IsUpper(c)

toLowerCase(s) == [i \in 1..Len(s) |-> LowerChar(s[i])]

RECURSIVE trim(_)
trim(s) ==
    IF s = <<>> THEN s
    ELSE IF Head(s) = " " THEN trim(Tail(s))
    ELSE IF s[Len(s)] = " " THEN trim(SubSeq(s, 1, Len(s) - 1))
    ELSE s

IsDigit(c) == c \in Digits
\* s.replace(/\D/g, '')
stripNonDigits(s) == SelectSeq(s, IsDigit)

\* path.extname: from the last '.' to the end; empty when there is no '.'
\* or the only '.' is the first character
extname(s) ==
    LET dots == {i \in 1..Len(s) : s[i] = "."}
        last == IF dots = {} THEN 0
                ELSE CHOOSE i \in dots : \A j \in dots : j <= i
    IN  IF last <= 1 THEN <<>> ELSE SubSeq(s, last, Len(s))

\* path.basename(s, ext): s without a trailing ext (compared case-sensitively)
basename(s, ext) ==
    IF /\ ext # <<>>
       /\ Len(s) > Len(ext)
       /\ SubSeq(s, Len(s) - Len(ext) + 1, Len(s)) = ext
    THEN SubSeq(s, 1, Len(s) - Len(ext))
    ELSE s

\* .replace(/[^a-zA-Z0-9]/g, '_')
sanitize(s) == [i \in 1..Len(s) |-> IF IsAlnum(s[i]) THEN s[i] ELSE "_"]

\* .substring(0, 20)
substring20(s) == IF Len(s) > 20 THEN SubSeq(s, 1, 20) ELSE s

(* ------------------------------- state -------------------------------- *)

VARIABLES
    requests,   \* the limiter's Map: client key -> [count, firstRequest]
    arrivals,   \* the requests that reached the limiter, in order: client
                \* key, time, and whether the limiter called next()
    now,        \* Date.now()
    disk,       \* the upload directory: stored path -> byte size (MiB)
    db,         \* the registrations collection: a set of documents
    pc,         \* pc[r]: where register request r stands
    body,       \* req.body of request r
    files,      \* req.files of request r: field -> file object or None
    resp,       \* the response sent to request r, None until sent
    call        \* the answer of the last admin call

vars == <<requests, arrivals, now, disk, db, pc, body, files, resp, call>>

(* ------------------------------- inputs ------------------------------- *)

PdfName == <<"a", ".", "p", "d", "f">>
PngName == <<"s", ".", "p", "n", "g">>

\* The file parts a client sends: an Aadhaar PDF of 3 or 6 MiB; a signature
\* PNG of 1 or 3 MiB, or a PDF sent as the signature.
AadharParts ==
    {[fieldname |-> "aadharFile", originalname |-> PdfName,
      mimetype |-> "application/pdf", size |-> sz] : sz \in {3, 6}}
SignatureParts ==
    {[fieldname |-> "signatureFile", originalname |-> PngName,
      mimetype |-> "image/png", size |-> sz] : sz \in {1, 3}}
    \cup {[fieldname |-> "signatureFile", originalname |-> PdfName,
           mimetype |-> "application/pdf", size |-> 1]}

\* The multipart file parts of one request: each field present or absent.
PartSets ==
    {[aadharFile |-> a, signatureFile |-> s] :
        a \in AadharParts \cup {None}, s \in SignatureParts \cup {None}}

(* --------------------------- config/multer.js ------------------------- *)

allowedMimeTypes ==
    [aadharFile |-> {"image/jpeg", "image/jpg", "image/png", "application/pdf"},
     signatureFile |-> {"image/jpeg", "image/jpg", "image/png"}]

allowedExtensions ==
    [aadharFile |-> {<<".", "j", "p", "g">>, <<".", "j", "p", "e", "g">>,
                     <<".", "p", "n", "g">>, <<".", "p", "d", "f">>},
     signatureFile |-> {<<".", "j", "p", "g">>, <<".", "j", "p", "e", "g">>,
                        <<".", "p", "n", "g">>}]

\* /^[a-zA-Z0-9._\-\s()[\]{}]+$/
NameCharOk(c) ==
    IsAlnum(c) \/ c \in {".", "_", "-", " ", "(", ")", "[", "]", "{", "}"}

\* A filter that does not look at the extension.
fileFilterMimeOnly(file) ==
    IF file.fieldname \notin DOMAIN allowedMimeTypes THEN FALSE
    ELSE IF file.mimetype \notin allowedMimeTypes[file.fieldname] THEN FALSE
    ELSE IF Len(file.originalname) > 255 THEN FALSE
    ELSE /\ file.originalname # <<>>
         /\ \A i \in 1..Len(file.originalname) : NameCharOk(file.originalname[i])

fileFilter(file) ==
    IF file.fieldname \notin DOMAIN allowedMimeTypes THEN FALSE
    ELSE IF file.mimetype \notin allowedMimeTypes[file.fieldname] THEN FALSE
    ELSE IF toLowerCase(extname(file.originalname))
               \notin allowedExtensions[file.fieldname] THEN FALSE
    ELSE IF Len(file.originalname) > 255 THEN FALSE
    ELSE /\ file.originalname # <<>>
         /\ \A i \in 1..Len(file.originalname) : NameCharOk(file.originalname[i])

\* createStorage.destination
destination(file) ==
    IF file.fieldname = "aadharFile" THEN "aadhar"
    ELSE IF file.fieldname = "signatureFile" THEN "signatures"
    ELSE "documents"

\* createStorage.filename: `${timestamp}_${randomId}_${baseName}${extension}`
filename(file, timestamp, randomId) ==
    LET extension == toLowerCase(extname(file.originalname))
        baseName == substring20(sanitize(basename(file.originalname, extension)))
    IN  <<timestamp, randomId, baseName, extension>>

\* limits.fileSize: Math.max(...Object.values(maxSizes))
fileSizeLimit ==
    IF AadharMaxSize >= SignatureMaxSize THEN AadharMaxSize ELSE SignatureMaxSize

\* The file object multer's disk storage hands on for a stored part.
StoredFile(file, timestamp, randomId) ==
    [fieldname |-> file.fieldname, originalname |-> file.originalname,
     mimetype |-> file.mimetype, size |-> file.size,
     filename |-> filename(file, timestamp, randomId),
     path |-> <<destination(file), filename(file, timestamp, randomId)>>]

\* The error uploadFields calls back with, if any: a part the fileFilter
\* refuses, or a part longer than limits.fileSize. Parts are taken in order.
PartError(part) ==
    IF part = None THEN Undefined
    ELSE IF ~fileFilter(part) THEN "VALIDATION_ERROR"
    ELSE IF part.size > fileSizeLimit THEN "FILE_TOO_LARGE"
    ELSE Undefined
uploadFieldsError(parts) ==
    IF PartError(parts.aadharFile) # Undefined THEN PartError(parts.aadharFile)
    ELSE PartError(parts.signatureFile)

\* uuidv4().split('-')[0] as drawn for the part of field f of request r:
\* two draws never give the same value.
uuidv4(r, f) == <<r, f>>

\* req.files after uploadFields stored every part (no error), ids[f] being
\* the uuidv4().split('-')[0] drawn for the part of field f
storeParts(parts, timestamp, ids) ==
    [f \in FileFields |->
        IF parts[f] = None THEN None
        ELSE StoredFile(parts[f], timestamp, ids[f])]

\* req.files of request r after uploadFields stored every part (no error)
uploadFields(r, parts, timestamp) ==
    storeParts(parts, timestamp, [f \in FileFields |-> uuidv4(r, f)])

\* the paths of the file objects in req.files
FilePaths(fs) == {fs[f].path : f \in {g \in FileFields : fs[g] # None}}

\* the disk after the files of fs are written
WriteFiles(d, fs) ==
    [p \in DOMAIN d \cup FilePaths(fs) |->
        IF \E f \in FileFields : fs[f] # None /\ fs[f].path = p
        THEN fs[CHOOSE f \in FileFields : fs[f] # None /\ fs[f].path = p].size
        ELSE d[p]]


(* ------------------------ middleware/validation.js -------------------- *)

\* A check of the digit count alone.
isTwelveDigits(value) == Len(stripNonDigits(value)) = 12

\* customValidators.isValidAadhaar
isValidAadhaar(value) ==
    LET cleanNumber == stripNonDigits(value)
    IN  IF value = <<>> THEN FALSE
        ELSE IF Len(cleanNumber) # 12 THEN FALSE
        ELSE IF cleanNumber[1] \notin {"2", "3", "4", "5", "6", "7", "8", "9"} THEN FALSE
        ELSE IF \A i \in 1..12 : cleanNumber[i] = cleanNumber[1] THEN FALSE
        ELSE IF cleanNumber = <<"1", "2", "3", "4", "5", "6", "7", "8", "9", "0", "1", "2">>
                \/ cleanNumber = <<"9", "8", "7", "6", "5", "4", "3", "2", "1", "0", "9", "8">>
             THEN FALSE
        ELSE TRUE

\* customValidators.isValidIndianPhone: /^[6789]\d{9}$/ on the digits
isValidIndianPhone(phone) ==
    LET cleanPhone == stripNonDigits(phone)
    IN  /\ phone # <<>>
        /\ Len(cleanPhone) = 10
        /\ cleanPhone[1] \in {"6", "7", "8", "9"}

\* The sanitizers of registrationValidation, which rewrite req.body:
\* email trim().normalizeEmail(), phone trim(), aadharNumber trim().
registrationSanitized(b) ==
    [b EXCEPT !.email = toLowerCase(trim(b.email)),
              !.phone = trim(b.phone),
              !.aadharNumber = trim(b.aadharNumber)]

\* validationResult(req).isEmpty() after registrationValidation. fieldsOk
\* stands for the validators of the fields the model does not carry (names,
\* dateOfBirth, address, city, state, pincode, courseName, email syntax).
registrationValidation(b) ==
    /\ b.fieldsOk
    /\ isValidIndianPhone(trim(b.phone))
    /\ trim(b.aadharNumber) # <<>>
    /\ isValidAadhaar(trim(b.aadharNumber))
    /\ b.agreeTerms # Undefined
    /\ b.agreeTerms \in {"true"}

(* -------------------------- models/Registration.js -------------------- *)

UniqueFields == {"email", "phone", "aadharNumber"}

\* one File Metadata sub-document has its five required fields
FileMetaValid(m) ==
    /\ m # None
    /\ m.originalName # <<>>
    /\ m.mimeType # ""

\* A schema whose file sub-records are optional.
SchemaValidNoFiles(doc) ==
    /\ doc.schemaOk
    /\ Len(doc.phone) = 10 /\ doc.phone[1] \in {"6", "7", "8", "9"}
    /\ \A i \in 1..Len(doc.phone) : IsDigit(doc.phone[i])
    /\ isValidAadhaar(doc.aadharNumber)
    /\ doc.agreeTerms = TRUE
    /\ doc.status \in StatusEnum

\* A schema whose status has no enum.
SchemaValidNoEnum(doc) ==
    /\ doc.schemaOk
    /\ Len(doc.phone) = 10 /\ doc.phone[1] \in {"6", "7", "8", "9"}
    /\ \A i \in 1..Len(doc.phone) : IsDigit(doc.phone[i])
    /\ isValidAadhaar(doc.aadharNumber)
    /\ FileMetaValid(doc.files.aadharFile)
    /\ FileMetaValid(doc.files.signatureFile)
    /\ doc.agreeTerms = TRUE

\* The schema's validators, run by save() before anything is written.
\* schemaOk stands for the validators of the fields the model does not carry.
SchemaValid(doc) ==
    /\ doc.schemaOk
    /\ Len(doc.phone) = 10 /\ doc.phone[1] \in {"6", "7", "8", "9"}
    /\ \A i \in 1..Len(doc.phone) : IsDigit(doc.phone[i])
    /\ isValidAadhaar(doc.aadharNumber)
    /\ FileMetaValid(doc.files.aadharFile)
    /\ FileMetaValid(doc.files.signatureFile)
    /\ doc.agreeTerms = TRUE
    /\ doc.status \in StatusEnum

\* pre('save'): digits-only aadharNumber and phone, lower-cased trimmed email
preSave(doc) ==
    [doc EXCEPT !.aadharNumber = stripNonDigits(doc.aadharNumber),
                !.email = toLowerCase(trim(doc.email)),
                !.phone = stripNonDigits(doc.phone)]

\* A lookup that never finds a document.
findNone(phone) == {}

\* A lookup by the value as the client wrote it.
findByPhoneExact(phone) == {d \in db : d.phone = phone}

\* statics findByEmail, findByPhone, findByAadhar: the documents found
findByEmail(email) == {d \in db : d.email = toLowerCase(trim(email))}
findByPhone(phone) == {d \in db : d.phone = stripNonDigits(phone)}
findByAadhar(aadhar) == {d \in db : d.aadharNumber = stripNonDigits(aadhar)}

\* The unique indexes (email, phone, aadharNumber) that inserting doc
\* would violate.
UniqueViolations(doc) ==
    {f \in UniqueFields : \E d \in db : d._id # doc._id /\ d[f] = doc[f]}

\* methods approve, reject, setUnderReview: the mutation before this.save()
SetReview(doc, status, reviewedBy, notes, at) ==
    [doc EXCEPT !.status = status,
                !.reviewedAt = <<at>>,
                !.reviewedBy = reviewedBy,
                !.notes = IF notes \notin {Undefined, ""} THEN notes ELSE @]
approve(doc, reviewedBy, notes, at) == SetReview(doc, "approved", reviewedBy, notes, at)
reject(doc, reviewedBy, notes, at) == SetReview(doc, "rejected", reviewedBy, notes, at)
setUnderReview(doc, reviewedBy, notes, at) ==
    SetReview(doc, "under_review", reviewedBy, notes, at)


(* ------------------------------- inputs ------------------------------- *)

EmailA == <<"a", "@", "x">>
EmailB == <<"b", "@", "x">>
PhoneA == <<"9", "8", "7", "6", "5", "4", "3", "2", "1", "0">>
PhoneB == <<"8", "8", "7", "6", "5", "4", "3", "2", "1", "0">>
AadharA == <<"2", "3", "4", "5", "6", "7", "8", "9", "0", "1", "2", "3">>
AadharB == <<"3", "3", "4", "5", "6", "7", "8", "9", "0", "1", "2", "3">>

\* The form fields a client sends. Otherwise valid forms: one, three that
\* share with it the email alone, the phone alone or the Aadhaar number
\* alone, and one that shares nothing with it. And one form each that
\* fails the validators, declines the terms, or passes the validators but
\* not the schema.
GoodBody(e, p, a) ==
    [email |-> e, phone |-> p, aadharNumber |-> a, agreeTerms |-> "true",
     fieldsOk |-> TRUE, schemaOk |-> TRUE]
GoodBodies ==
    {GoodBody(EmailA, PhoneA, AadharA), GoodBody(EmailA, PhoneB, AadharB),
     GoodBody(EmailB, PhoneA, AadharB), GoodBody(EmailB, PhoneB, AadharA),
     GoodBody(EmailB, PhoneB, AadharB)}
Bodies ==
    GoodBodies
    \cup {[GoodBody(EmailA, PhoneA, AadharA) EXCEPT !.fieldsOk = FALSE],
          [GoodBody(EmailA, PhoneA, AadharA) EXCEPT !.agreeTerms = "false"],
          [GoodBody(EmailA, PhoneA, AadharA) EXCEPT !.schemaOk = FALSE]}

\* What can go wrong in the database when a document is inserted: nothing,
\* an orphaned unique index (registrationId_1) rejecting the insert, or any
\* other error.
SaveFaults == {"none", "orphaned_index", "error"}

(* --------------------- config/multer.js: the middleware --------------- *)

Response(status, error, field) ==
    [status |-> status, error |-> error, field |-> field]

\* A cleanup that stops after the first field's file.
cleanupAadharOnly(d, fs, failing) ==
    [p \in DOMAIN d \ (FilePaths([fs EXCEPT !.signatureFile = None]) \ failing) |-> d[p]]

\* cleanupFiles: unlink every path of req.files that exists; an unlink that
\* throws (the paths in failing) is logged and the loop goes on.
cleanupFiles(d, fs, failing) ==
    [p \in DOMAIN d \ (FilePaths(fs) \ failing) |-> d[p]]

\* the requiredFiles missing from req.files
missingFiles(fs) == {f \in FileFields : fs[f] = None}

\* the per-field size errors of uploadMiddleware
sizeErrors(fs) ==
    {f \in FileFields :
        /\ fs[f] # None
        /\ \/ f = "aadharFile" /\ fs[f].size > AadharMaxSize
           \/ f = "signatureFile" /\ fs[f].size > SignatureMaxSize}

\* uploadMiddleware on request r with form fields b and file parts `parts`,
\* ids[f] being the random id drawn for the part of field f.
\* When uploadFields calls back with an error, multer has removed the files
\* it stored for the request.
uploadMiddlewareWith(r, b, parts, ids) ==
    \E fs \in {storeParts(parts, now, ids)} :
    LET err == uploadFieldsError(parts)
        Answer(status, error) ==
            /\ resp' = [resp EXCEPT ![r] = Response(status, error, Undefined)]
            /\ pc' = [pc EXCEPT ![r] = "done"]
            /\ UNCHANGED body
    IN  /\ pc[r] = "start"
        /\ UNCHANGED <<requests, arrivals, now, db, call>>
        /\ IF err # Undefined
           THEN Answer(400, err) /\ UNCHANGED <<disk, files>>
           ELSE /\ disk' = WriteFiles(disk, fs)
                /\ files' = [files EXCEPT ![r] = fs]
                /\ IF missingFiles(fs) # {}
                   THEN Answer(400, "MISSING_FILES")
                   ELSE IF sizeErrors(fs) # {}
                   THEN Answer(400, "File validation failed")
                   ELSE /\ body' = [body EXCEPT ![r] = b]
                        /\ pc' = [pc EXCEPT ![r] = "validate"]
                        /\ UNCHANGED resp

\* uploadMiddleware with the ids no two draws of which are the same
uploadMiddleware(r, b, parts) ==
    uploadMiddlewareWith(r, b, parts, [f \in FileFields |-> uuidv4(r, f)])

\* whether uploadMiddleware calls next() for these parts
uploadPasses(parts) ==
    /\ uploadFieldsError(parts) = Undefined
    /\ missingFiles(parts) = {}
    /\ sizeErrors(parts) = {}

(* ------------- controllers/registrationController.js: register -------- *)

\* A rejection of createRegistration: cleanupFiles(req.files), then the
\* error response.
\* A rejection whose answer is replaced when an unlink of the cleanup throws.
RejectMasking(r, response, failing) ==
    /\ disk' = cleanupFiles(disk, files[r], failing)
    /\ resp' = [resp EXCEPT ![r] =
                    IF failing \cap DOMAIN disk # {}
                    THEN Response(500, "Registration failed", Undefined)
                    ELSE response]
    /\ pc' = [pc EXCEPT ![r] = "done"]
    /\ body' = [body EXCEPT ![r] = None]
    /\ UNCHANGED <<requests, arrivals, now, db, files, call>>

\* await cleanupFiles(req.files); return res.status(..).json(..)
Reject(r, response, failing) ==
    /\ disk' = cleanupFiles(disk, files[r], failing)
    /\ resp' = [resp EXCEPT ![r] = response]
    /\ pc' = [pc EXCEPT ![r] = "done"]
    /\ body' = [body EXCEPT ![r] = None]
    /\ UNCHANGED <<requests, arrivals, now, db, files, call>>

\* The request goes on to its next database operation.
Proceed(r, next) ==
    /\ pc' = [pc EXCEPT ![r] = next]
    /\ UNCHANGED <<requests, arrivals, now, disk, db, files, resp, call>>

\* registrationValidation, then createRegistration up to the answer of
\* findByEmail.
createRegistrationStart(r, failing) ==
    /\ pc[r] = "validate"
    /\ IF ~registrationValidation(body[r])
       THEN Reject(r, Response(400, "Validation failed", Undefined), failing)
       ELSE IF missingFiles(files[r]) # {}
       THEN Reject(r, Response(400, "files are required", Undefined), failing)
       ELSE LET b == registrationSanitized(body[r])
            IN  IF findByEmail(b.email) # {}
                THEN Reject(r, Response(400, "duplicate", "email"), failing)
                ELSE /\ body' = [body EXCEPT ![r] = b]
                     /\ Proceed(r, "findByPhone")

\* createRegistration on the answer of findByPhone
createRegistrationPhone(r, failing) ==
    /\ pc[r] = "findByPhone"
    /\ IF findByPhone(body[r].phone) # {}
       THEN Reject(r, Response(400, "duplicate", "phone"), failing)
       ELSE /\ UNCHANGED body
            /\ Proceed(r, "findByAadhar")

\* createRegistration on the answer of findByAadhar, up to save()
createRegistrationAadhar(r, failing) ==
    /\ pc[r] = "findByAadhar"
    /\ IF findByAadhar(body[r].aadharNumber) # {}
       THEN Reject(r, Response(400, "duplicate", "aadharNumber"), failing)
       ELSE IF body[r].agreeTerms # "true"
       THEN Reject(r, Response(400, "Registration validation failed", Undefined),
                   failing)
       ELSE /\ UNCHANGED body
            /\ Proceed(r, "save")

\* File metadata that loses the size.
getFileInfoNoSize(file, at) ==
    IF file = None THEN None
    ELSE [originalName |-> file.originalname, filename |-> file.filename,
          path |-> file.path, size |-> 0, mimeType |-> file.mimetype,
          uploadedAt |-> at]

\* getFileInfo of config/multer.js
getFileInfo(file, at) ==
    IF file = None THEN None
    ELSE [originalName |-> file.originalname, filename |-> file.filename,
          path |-> file.path, size |-> file.size, mimeType |-> file.mimetype,
          uploadedAt |-> at]

\* new Registration(registrationData) for request r; the schema defaults
\* status to 'pending'.
registrationData(r, b, fs, at) ==
    [_id |-> r,
     email |-> toLowerCase(trim(b.email)),
     phone |-> stripNonDigits(b.phone),
     aadharNumber |-> stripNonDigits(b.aadharNumber),
     agreeTerms |-> TRUE,
     schemaOk |-> b.schemaOk,
     files |-> [aadharFile |-> getFileInfo(fs.aadharFile, at),
                signatureFile |-> getFileInfo(fs.signatureFile, at)],
     status |-> "pending",
     reviewedAt |-> <<>>,
     reviewedBy |-> Undefined,
     notes |-> Undefined]

\* An insert into a collection without unique indexes.
InsertUnindexed(doc) == TRUE

\* The document insert of save(): the unique indexes decide.
InsertAllowed(doc) == UniqueViolations(doc) = {}

\* the fields the duplicate-key branch names to the client
fieldNames == {"email", "phone", "aadharNumber"}

\* A duplicate-key branch without the check for unknown fields.
duplicateKeyAsDuplicate(field) == Response(400, "duplicate key", field)

\* the catch block on error.code === 11000, field being the first key of
\* error.keyPattern
duplicateKeyResponse(field) ==
    IF field \notin fieldNames
    THEN Response(500, "ORPHANED_INDEX", field)
    ELSE Response(400, "duplicate key", field)

\* createRegistration on the outcome of registration.save()
createRegistrationSave(r, fault, failing) ==
    /\ pc[r] = "save"
    /\ LET doc == preSave(registrationData(r, body[r], files[r], now))
       IN  IF ~SchemaValid(doc)
           THEN Reject(r, Response(400, "Registration data validation failed",
                                   Undefined), failing)
           ELSE IF fault = "error"
           THEN Reject(r, Response(500, "Registration failed", Undefined), failing)
           ELSE IF ~InsertAllowed(doc)
           THEN \E f \in UniqueViolations(doc) :
                    Reject(r, duplicateKeyResponse(f), failing)
           ELSE IF fault = "orphaned_index"
           THEN Reject(r, duplicateKeyResponse("registrationId"), failing)
           ELSE /\ db' = db \cup {doc}
                /\ resp' = [resp EXCEPT ![r] = Response(201, "created", Undefined)]
                /\ pc' = [pc EXCEPT ![r] = "done"]
                /\ body' = [body EXCEPT ![r] = None]
                /\ UNCHANGED <<requests, arrivals, now, disk, files, call>>

(* ------------- middleware/validation.js: rateLimitValidation ---------- *)

\* req.ip of the clients
ClientKeys == {"10.0.0.1", "10.0.0.2"}

\* "Clean old entries": the Map without the entries older than windowMs
cleanOldEntries(windowMs) ==
    [ip \in {k \in DOMAIN requests : ~(now - requests[k].firstRequest > windowMs)}
        |-> requests[ip]]

\* the Map with key set to value
MapSet(map, key, value) ==
    [k \in DOMAIN map \cup {key} |-> IF k = key THEN value ELSE map[k]]

\* A limiter that counts the refused requests too.
rateLimitCountingRefusals(windowMs, max, key) ==
    LET cleaned == cleanOldEntries(windowMs)
        Next(map) ==
            /\ requests' = map
            /\ arrivals' = Append(arrivals, [key |-> key, at |-> now, next |-> TRUE])
        fresh == [count |-> 1, firstRequest |-> now]
    IN  IF key \notin DOMAIN cleaned
        THEN Next(MapSet(cleaned, key, fresh))
        ELSE IF now - cleaned[key].firstRequest > windowMs
        THEN Next(MapSet(cleaned, key, fresh))
        ELSE IF cleaned[key].count >= max
        THEN /\ requests' = MapSet(cleaned, key,
                                   [cleaned[key] EXCEPT !.count = @ + 1])
             /\ arrivals' = Append(arrivals, [key |-> key, at |-> now, next |-> FALSE])
        ELSE Next(MapSet(cleaned, key, [cleaned[key] EXCEPT !.count = @ + 1]))

\* A limiter that never answers 429.
rateLimitOff(windowMs, max, key) ==
    /\ requests' = MapSet(cleanOldEntries(windowMs), key,
                          [count |-> 1, firstRequest |-> now])
    /\ arrivals' = Append(arrivals, [key |-> key, at |-> now, next |-> TRUE])

\* the middleware rateLimitValidation(windowMs, max) returns, on a request
\* of client `key`: the Map afterwards, and next() or the 429 answer
rateLimitValidation(windowMs, max, key) ==
    LET cleaned == cleanOldEntries(windowMs)
        Next(map) ==
            /\ requests' = map
            /\ arrivals' = Append(arrivals, [key |-> key, at |-> now, next |-> TRUE])
        fresh == [count |-> 1, firstRequest |-> now]
    IN  IF key \notin DOMAIN cleaned
        THEN Next(MapSet(cleaned, key, fresh))
        ELSE IF now - cleaned[key].firstRequest > windowMs
        THEN Next(MapSet(cleaned, key, fresh))
        ELSE IF cleaned[key].count >= max
        THEN /\ requests' = cleaned
             /\ arrivals' = Append(arrivals, [key |-> key, at |-> now, next |-> FALSE])
        ELSE Next(MapSet(cleaned, key, [cleaned[key] EXCEPT !.count = @ + 1]))

(* ---------- controllers/registrationController.js: admin handlers ----- *)

\* The statuses, reviewer names, notes and file types an operator sends.
StatusInputs == StatusEnum \cup {"Active", "bogus"}
ReviewerInputs == {"admin"}
NotesInputs == {Undefined, "checked"}
FileTypeInputs == {"aadhar", "signature", "photo"}

\* The answer of an admin call: the handler, the HTTP status, whether the
\* record was looked up, and whether the in-memory document the handler
\* held when it answered differed from the one it had loaded.
AdminAnswer(op, status, looked, modified) ==
    [op |-> op, status |-> status, looked |-> looked, modified |-> modified]
NoCall == AdminAnswer("none", 0, FALSE, FALSE)

\* Registration.findById
findById(id) == {d \in db : d._id = id}

\* the switch of updateRegistrationStatus: the document as save() gets it
statusSwitch(registration, status, reviewedBy, notes, at) ==
    CASE status = "approved" -> approve(registration, reviewedBy, notes, at)
      [] status = "rejected" -> reject(registration, reviewedBy, notes, at)
      [] status = "under_review" -> setUnderReview(registration, reviewedBy, notes, at)
      [] OTHER -> SetReview(registration, status, reviewedBy, notes, at)

\* statusUpdateValidation: the verdict express-validator records on the
\* request. The route runs no handler that reads it, and neither does
\* updateRegistrationStatus, so the request goes on whatever the verdict.
statusUpdateValidation(status) == status \in StatusEnum

\* the statuses updateRegistrationStatus lets through to the lookup
statusAccepted(status) == status \in validStatuses

updateRegistrationStatus(id, status, reviewedBy, notes) ==
    LET found == findById(id)
        registration == CHOOSE d \in found : TRUE
        updated == statusSwitch(registration, status, reviewedBy, notes, now)
        Answer(code, looked, modified) ==
            call' = AdminAnswer("updateRegistrationStatus", code, looked, modified)
    IN  /\ UNCHANGED <<requests, arrivals, now, disk, pc, body, files, resp>>
        /\ IF ~statusAccepted(status)
           THEN Answer(400, FALSE, FALSE) /\ UNCHANGED db
           ELSE IF found = {}
           THEN Answer(404, TRUE, FALSE) /\ UNCHANGED db
           ELSE IF ~SchemaValid(updated)
           THEN Answer(500, TRUE, updated # registration) /\ UNCHANGED db
           ELSE Answer(200, TRUE, updated # registration)
                /\ db' = (db \ found) \cup {updated}

\* the stored paths of a document's files
DocPaths(doc) ==
    {doc.files[f].path : f \in {g \in FileFields : doc.files[g] # None}}

\* the disk after unlinking the paths of P that exist, except those in
\* `failing`, whose unlink throws and is caught
unlinkAll(d, P, failing) == [p \in DOMAIN d \ (P \ failing) |-> d[p]]

\* A deletion that gives up with 500 when a file cannot be removed.
deleteRegistrationStrict(id, failing, dbError) ==
    LET found == findById(id)
        registration == CHOOSE d \in found : TRUE
        Answer(code, looked) ==
            call' = AdminAnswer("deleteRegistration", code, looked, FALSE)
    IN  /\ UNCHANGED <<requests, arrivals, now, pc, body, files, resp>>
        /\ IF found = {}
           THEN Answer(404, TRUE) /\ UNCHANGED <<db, disk>>
           ELSE /\ disk' = unlinkAll(disk, DocPaths(registration), failing)
                /\ IF dbError \/ failing \cap DocPaths(registration) \cap DOMAIN disk # {}
                   THEN Answer(500, TRUE) /\ UNCHANGED db
                   ELSE Answer(200, TRUE) /\ db' = db \ found

\* deleteRegistration: findById, the unlink loop, findByIdAndDelete
deleteRegistration(id, failing, dbError) ==
    LET found == findById(id)
        registration == CHOOSE d \in found : TRUE
        Answer(code, looked) ==
            call' = AdminAnswer("deleteRegistration", code, looked, FALSE)
    IN  /\ UNCHANGED <<requests, arrivals, now, pc, body, files, resp>>
        /\ IF found = {}
           THEN Answer(404, TRUE) /\ UNCHANGED <<db, disk>>
           ELSE /\ disk' = unlinkAll(disk, DocPaths(registration), failing)
                /\ IF dbError
                   THEN Answer(500, TRUE) /\ UNCHANGED db
                   ELSE Answer(200, TRUE) /\ db' = db \ found

deleteFile(id, fileType, failing) ==
    LET found == findById(id)
        registration == CHOOSE d \in found : TRUE
        fileField == IF fileType = "aadhar" THEN "aadharFile" ELSE "signatureFile"
        fileInfo == registration.files[fileField]
        updated == [registration EXCEPT !.files[fileField] = None]
        Answer(code, looked, modified) ==
            call' = AdminAnswer("deleteFile", code, looked, modified)
    IN  /\ UNCHANGED <<requests, arrivals, now, pc, body, files, resp>>
        /\ IF fileType \notin {"aadhar", "signature"}
           THEN Answer(400, FALSE, FALSE) /\ UNCHANGED <<db, disk>>
           ELSE IF found = {}
           THEN Answer(404, TRUE, FALSE) /\ UNCHANGED <<db, disk>>
           ELSE IF fileInfo = None
           THEN Answer(404, TRUE, FALSE) /\ UNCHANGED <<db, disk>>
           ELSE /\ disk' = unlinkAll(disk, {fileInfo.path}, failing)
                /\ IF ~SchemaValid(updated)
                   THEN Answer(500, TRUE, TRUE) /\ UNCHANGED db
                   ELSE Answer(200, TRUE, TRUE)
                        /\ db' = (db \ found) \cup {updated}

(* ------------ controllers/registrationController.js: file handlers ---- *)

\* The answer of a file retrieval: the handler, the HTTP status, the
\* message of an error body, and of a streamed body the filename of the
\* Content-Disposition header, the bytes (their count stands for them) and,
\* for an archive, the names of its entries.
FileAnswer(op, status, message, attachment, bytes, entries) ==
    [op |-> op, status |-> status, message |-> message, filename |-> attachment,
     bytes |-> bytes, entries |-> entries]

\* a file slot's metadata names a path
HasPath(fileInfo) == fileInfo # None /\ fileInfo.path # <<>>

\* The stored name in place of the client's name.
storageName(fileInfo) == fileInfo.filename

\* the filename of downloadFile's Content-Disposition header
dispositionName(fileInfo) == fileInfo.originalName

\* A downloadFile that looks the record up before it checks the file type.
downloadFileLookupFirst(id, fileType) ==
    LET found == findById(id)
        registration == CHOOSE d \in found : TRUE
        fileField == IF fileType = "aadhar" THEN "aadharFile" ELSE "signatureFile"
        fileInfo == registration.files[fileField]
        Error(status, message) ==
            FileAnswer("downloadFile", status, message, <<>>, 0, {})
    IN  IF found = {}
        THEN Error(404, "Registration not found")
        ELSE IF fileType \notin {"aadhar", "signature"}
        THEN Error(400, "Invalid file type")
        ELSE IF ~HasPath(fileInfo)
        THEN Error(404, "file not found")
        ELSE IF fileInfo.path \notin DOMAIN disk
        THEN Error(404, "File not found on server")
        ELSE FileAnswer("downloadFile", 200, "", dispositionName(fileInfo),
                        disk[fileInfo.path], {})

\* what downloadFile answers for this record id and file type in the
\* current state
downloadFileAnswer(id, fileType) ==
    LET found == findById(id)
        registration == CHOOSE d \in found : TRUE
        fileField == IF fileType = "aadhar" THEN "aadharFile" ELSE "signatureFile"
        fileInfo == registration.files[fileField]
        Error(status, message) ==
            FileAnswer("downloadFile", status, message, <<>>, 0, {})
    IN  IF fileType \notin {"aadhar", "signature"}
        THEN Error(400, "Invalid file type")
        ELSE IF found = {}
        THEN Error(404, "Registration not found")
        ELSE IF ~HasPath(fileInfo)
        THEN Error(404, "file not found")
        ELSE IF fileInfo.path \notin DOMAIN disk
        THEN Error(404, "File not found on server")
        ELSE FileAnswer("downloadFile", 200, "", dispositionName(fileInfo),
                        disk[fileInfo.path], {})

downloadFile(id, fileType) ==
    /\ call' = downloadFileAnswer(id, fileType)
    /\ UNCHANGED <<requests, arrivals, now, disk, db, pc, body, files, resp>>

\* the entry of the archive that carries the registration's text
InfoEntry == <<"registration", <<"i", "n", "f", "o", ".", "t", "x", "t">>>>

\* A filesToZip that does not look on disk.
filesToZipUnchecked(registration) ==
    {<<IF f = "aadharFile" THEN "aadhar" ELSE "signature",
       registration.files[f].originalName>> :
        f \in {g \in FileFields : HasPath(registration.files[g])}}

\* filesToZip of downloadAllFiles: the entry names '<type>_<originalName>'
\* of the slots whose metadata names a path that is on disk
filesToZip(registration) ==
    {<<IF f = "aadharFile" THEN "aadhar" ELSE "signature",
       registration.files[f].originalName>> :
        f \in {g \in FileFields : /\ HasPath(registration.files[g])
                                  /\ registration.files[g].path \in DOMAIN disk}}

downloadAllFilesAnswer(id) ==
    LET found == findById(id)
        registration == CHOOSE d \in found : TRUE
        Error(status, message) ==
            FileAnswer("downloadAllFiles", status, message, <<>>, 0, {})
    IN  IF found = {}
        THEN Error(404, "Registration not found")
        ELSE IF filesToZip(registration) = {}
        THEN Error(404, "No files found for this registration")
        ELSE FileAnswer("downloadAllFiles", 200, "", <<"registration", id>>, 0,
                        filesToZip(registration) \cup {InfoEntry})

downloadAllFiles(id) ==
    /\ call' = downloadAllFilesAnswer(id)
    /\ UNCHANGED <<requests, arrivals, now, disk, db, pc, body, files, resp>>

(* ----------------------------- the system ----------------------------- *)

Tick ==
    /\ now < MaxTime
    /\ now' = now + 1
    /\ UNCHANGED <<requests, arrivals, disk, db, pc, body, files, resp, call>>

NoFiles == [f \in FileFields |-> None]

Init ==
    /\ requests = <<>>
    /\ arrivals = <<>>
    /\ now = 0
    /\ disk = <<>>
    /\ db = {}
    /\ pc = [r \in Reqs |-> "start"]
    /\ body = [r \in Reqs |-> None]
    /\ files = [r \in Reqs |-> NoFiles]
    /\ resp = [r \in Reqs |-> None]
    /\ call = NoCall

\* The unlinks of a cleanup that throw: none.
Failing(P) == {{}}

\* The form fields read with the parts: any, when the parts pass the
\* middleware; they are never read otherwise.
BodiesWith(parts, BS) == IF uploadPasses(parts) THEN BS ELSE {None}

\* The requests the operator's calls are checked against: complete uploads
\* and uploads without the signature; two forms that share nothing and one
\* the schema refuses.
AdminPartSets ==
    {ps \in PartSets : /\ ps.aadharFile # None /\ ps.aadharFile.size = 3
                       /\ ps.signatureFile # None => ps.signatureFile.size = 1
                       /\ uploadFieldsError(ps) = Undefined}
AdminBodies ==
    {GoodBody(EmailA, PhoneA, AadharA), GoodBody(EmailB, PhoneB, AadharB),
     [GoodBody(EmailA, PhoneA, AadharA) EXCEPT !.schemaOk = FALSE]}

Upload(R, PS, BS) ==
    \E r \in R, parts \in PS : \E b \in BodiesWith(parts, BS) :
        uploadMiddleware(r, b, parts)
RegisterStart(R) ==
    \E r \in R : \E failing \in Failing(FilePaths(files[r])) :
        createRegistrationStart(r, failing)
RegisterPhone(R) ==
    \E r \in R : \E failing \in Failing(FilePaths(files[r])) :
        createRegistrationPhone(r, failing)
RegisterAadhar(R) ==
    \E r \in R : \E failing \in Failing(FilePaths(files[r])) :
        createRegistrationAadhar(r, failing)
RegisterSave(R) ==
    \E r \in R, fault \in SaveFaults : \E failing \in Failing(FilePaths(files[r])) :
        createRegistrationSave(r, fault, failing)
UpdateStatus ==
    \E id \in Reqs, status \in StatusInputs, reviewedBy \in ReviewerInputs,
       notes \in NotesInputs :
        updateRegistrationStatus(id, status, reviewedBy, notes)
DeleteRegistration ==
    \E id \in Reqs, dbError \in BOOLEAN :
        \E failing \in Failing(UNION {DocPaths(d) : d \in findById(id)}) :
            deleteRegistration(id, failing, dbError)
DeleteFile ==
    \E id \in Reqs, fileType \in FileTypeInputs :
        \E failing \in Failing(UNION {DocPaths(d) : d \in findById(id)}) :
            deleteFile(id, fileType, failing)

Next ==
    \/ Upload(Reqs, PartSets, Bodies)
    \/ RegisterStart(Reqs)
    \/ RegisterPhone(Reqs)
    \/ RegisterAadhar(Reqs)
    \/ RegisterSave(Reqs)

Spec == Init /\ [][Next]_vars

NextAdmin ==
    \/ Tick
    \/ Upload(AdminReqs, AdminPartSets, AdminBodies)
    \/ RegisterStart(AdminReqs)
    \/ RegisterPhone(AdminReqs)
    \/ RegisterAadhar(AdminReqs)
    \/ RegisterSave(AdminReqs)
    \/ UpdateStatus
    \/ DeleteRegistration
    \/ DeleteFile

SpecAdmin == Init /\ [][NextAdmin]_vars

DownloadFile ==
    \E id \in Reqs, fileType \in FileTypeInputs : downloadFile(id, fileType)
DownloadAllFiles ==
    \E id \in Reqs : downloadAllFiles(id)

NextFiles ==
    \/ Upload(AdminReqs, AdminPartSets, AdminBodies)
    \/ RegisterStart(AdminReqs)
    \/ RegisterPhone(AdminReqs)
    \/ RegisterAadhar(AdminReqs)
    \/ RegisterSave(AdminReqs)
    \/ DeleteRegistration
    \/ DeleteFile
    \/ DownloadFile
    \/ DownloadAllFiles

SpecFiles == Init /\ [][NextFiles]_vars

\* ---- the register pipeline with the random id as an input ----
\* createStorage.filename takes the first group of a version 4 UUID, eight
\* hexadecimal digits that are all random: two draws can be the same.  Here
\* every part draws its id from RandomIds, the clock stands still (the
\* requests arrive within one millisecond) and the requests run concurrently.
RandomIds == {<<"1", "a", "2", "b", "3", "c", "4", "d">>,
              <<"9", "f", "8", "e", "7", "d", "6", "c">>}
UploadDrawing ==
    \E r \in Reqs, parts \in AdminPartSets, ids \in [FileFields -> RandomIds] :
        \E b \in BodiesWith(parts, AdminBodies) :
            uploadMiddlewareWith(r, b, parts, ids)

NextCollide ==
    \/ UploadDrawing
    \/ RegisterStart(Reqs)
    \/ RegisterPhone(Reqs)
    \/ RegisterAadhar(Reqs)
    \/ RegisterSave(Reqs)

SpecCollide == Init /\ [][NextCollide]_vars

\* ---- the register pipeline over Aadhaar numbers as clients write them ----
\* Twelve digits written plainly, in groups of four with spaces or hyphens,
\* padded with spaces, or with a letter in front; and the numbers the
\* validators refuse: the two banned sequences, twelve identical digits, a
\* first digit of 0 or 1, eleven and thirteen digits, spaces alone, nothing.
\* The grouped, padded and lettered forms each carry digits of their own.
Grouped(a, sep) ==
    SubSeq(a, 1, 4) \o <<sep>> \o SubSeq(a, 5, 8) \o <<sep>> \o SubSeq(a, 9, 12)
StartingWith(c, a) == <<c>> \o SubSeq(a, 2, Len(a))
AadharSpaced == Grouped(StartingWith("4", AadharA), " ")
AadharHyphened == Grouped(StartingWith("5", AadharA), "-")
AadharPadded == <<" ">> \o StartingWith("6", AadharA) \o <<" ", " ">>
AadharLettered == <<"x">> \o StartingWith("7", AadharA)
Banned1 == <<"1", "2", "3", "4", "5", "6", "7", "8", "9", "0", "1", "2">>
Banned2 == <<"9", "8", "7", "6", "5", "4", "3", "2", "1", "0", "9", "8">>
AllTwos == [i \in 1..12 |-> "2"]
AadharInputs ==
    {AadharA, AadharSpaced, AadharHyphened, AadharPadded, AadharLettered,
     Banned1, Banned2, Grouped(Banned2, " "),
     AllTwos, Grouped(AllTwos, "-"),
     StartingWith("0", AadharA), Grouped(StartingWith("1", AadharA), " "),
     SubSeq(AadharA, 1, 11), AadharA \o <<"4">>,
     <<" ", " ">>, <<>>}
AadharBodies ==
    {GoodBody(EmailA, PhoneA, a) : a \in AadharInputs}
    \cup {GoodBody(EmailB, PhoneB, a) : a \in {AadharSpaced, Banned1}}

NextAadhar ==
    \/ Upload(Reqs, AdminPartSets, AadharBodies)
    \/ RegisterStart(Reqs)
    \/ RegisterPhone(Reqs)
    \/ RegisterAadhar(Reqs)
    \/ RegisterSave(Reqs)

SpecAadhar == Init /\ [][NextAadhar]_vars

\* ---- the register pipeline on values written in other ways ----
\* The email of the first form in capitals between spaces, its phone
\* number with a hyphen, and its Aadhaar number in groups of four.
EmailAShout == <<" ", "A", "@", "X", " ", " ">>
PhoneADashed == SubSeq(PhoneA, 1, 5) \o <<"-">> \o SubSeq(PhoneA, 6, 10)
PhoneASpaced == <<" ">> \o SubSeq(PhoneA, 1, 5) \o <<" ">> \o SubSeq(PhoneA, 6, 10)
EmailC == <<"c", "@", "x">>
PhoneC == <<"7", "8", "7", "6", "5", "4", "3", "2", "1", "0">>
AadharC == <<"4", "3", "4", "5", "6", "7", "8", "9", "0", "1", "2", "3">>

\* One form, one form each that repeats its email, its phone or its Aadhaar
\* number written in another way, and one that shares nothing with it.
NormalBodies ==
    {GoodBody(EmailA, PhoneA, AadharA),
     GoodBody(EmailAShout, PhoneB, AadharB),
     GoodBody(EmailB, PhoneADashed, Grouped(AadharB, " ")),
     GoodBody(EmailB, PhoneASpaced, AadharB),
     GoodBody(EmailC, PhoneB, Grouped(AadharA, "-")),
     GoodBody(EmailC, PhoneC, AadharC)}

NextNormal ==
    \/ Upload(Reqs, AdminPartSets, NormalBodies)
    \/ RegisterStart(Reqs)
    \/ RegisterPhone(Reqs)
    \/ RegisterAadhar(Reqs)
    \/ RegisterSave(Reqs)

SpecNormal == Init /\ [][NextNormal]_vars

\* ---- the register pipeline and the deletions with failing unlinks ----
\* An unlink can throw (a permission error, a busy file): every cleanup and
\* every deletion draws the set of its paths whose unlink throws. A file of
\* the upload directory can also be gone before the service removes it.
Unlinks(P) == SUBSET P

Vanish ==
    /\ \E p \in DOMAIN disk : disk' = [q \in DOMAIN disk \ {p} |-> disk[q]]
    /\ UNCHANGED <<requests, arrivals, now, db, pc, body, files, resp, call>>

RegisterStartFailing ==
    \E r \in AdminReqs : \E failing \in Unlinks(FilePaths(files[r])) :
        createRegistrationStart(r, failing)
RegisterPhoneFailing ==
    \E r \in AdminReqs : \E failing \in Unlinks(FilePaths(files[r])) :
        createRegistrationPhone(r, failing)
RegisterAadharFailing ==
    \E r \in AdminReqs : \E failing \in Unlinks(FilePaths(files[r])) :
        createRegistrationAadhar(r, failing)
RegisterSaveFailing ==
    \E r \in AdminReqs, fault \in SaveFaults :
        \E failing \in Unlinks(FilePaths(files[r])) :
            createRegistrationSave(r, fault, failing)
DeleteRegistrationFailing ==
    \E id \in AdminReqs, dbError \in BOOLEAN :
        \E failing \in Unlinks(UNION {DocPaths(d) : d \in findById(id)}) :
            deleteRegistration(id, failing, dbError)
DeleteFileFailing ==
    \E id \in AdminReqs, fileType \in FileTypeInputs :
        \E failing \in Unlinks(UNION {DocPaths(d) : d \in findById(id)}) :
            deleteFile(id, fileType, failing)

\* The forms: two that share the email; one that fails the validators, one
\* that declines the terms, one the schema refuses.
FaultBodies ==
    {GoodBody(EmailA, PhoneA, AadharA), GoodBody(EmailA, PhoneB, AadharB),
     [GoodBody(EmailA, PhoneA, AadharA) EXCEPT !.fieldsOk = FALSE],
     [GoodBody(EmailA, PhoneA, AadharA) EXCEPT !.agreeTerms = "false"],
     [GoodBody(EmailA, PhoneA, AadharA) EXCEPT !.schemaOk = FALSE]}

NextFaults ==
    \/ Upload(AdminReqs, AdminPartSets, FaultBodies)
    \/ Vanish
    \/ RegisterStartFailing
    \/ RegisterPhoneFailing
    \/ RegisterAadharFailing
    \/ RegisterSaveFailing
    \/ DeleteRegistrationFailing
    \/ DeleteFileFailing

SpecFaults == Init /\ [][NextFaults]_vars

\* ---- the limiter alone ----
\* rateLimitValidation(RateWindow, RateMax) on the requests of two clients
\* as the clock runs; MaxArrivals requests reach it.
RateWindow == 2     \* windowMs, in ticks of the clock
RateMax == 2        \* max
RateMaxTime == 3    \* the clock runs from 0 to RateMaxTime
MaxArrivals == 5    \* requests that reach the limiter

TickRate ==
    /\ now < RateMaxTime
    /\ now' = now + 1
    /\ UNCHANGED <<requests, arrivals, disk, db, pc, body, files, resp, call>>

Arrive ==
    \E key \in ClientKeys :
        /\ Len(arrivals) < MaxArrivals
        /\ rateLimitValidation(RateWindow, RateMax, key)
        /\ UNCHANGED <<now, disk, db, pc, body, files, resp, call>>

NextRate ==
    \/ TickRate
    \/ Arrive

SpecRate == Init /\ [][NextRate]_vars

\* ---- every handler from request to response ----
\* The call in flight of a handler that answers through res: the HTTP
\* status, whether the headers are sent, how many response bodies were
\* begun (a res.json, or the first chunk piped into res), and the stage:
\* "piping" while a stream feeds res, "ended" when the stream ended res,
\* "done" after res.json, "broken" when the stream failed with the headers
\* out.
StreamCall(op, status, stage, headersSent, bodies) ==
    [op |-> op, status |-> status, stage |-> stage,
     headersSent |-> headersSent, bodies |-> bodies]

\* res.status(status).json(..) as the first write of a call
Json(op, status) == StreamCall(op, status, "done", TRUE, 1)

Piping == "stage" \in DOMAIN call /\ call.stage = "piping"

\* downloadFile and downloadAllFiles up to readStream.pipe(res) and
\* archive.pipe(res): the JSON answer of a failure (of the lookup too, in
\* the catch block), or the headers set and a stream attached to res.
pipeResponse(op, answer, dbError) ==
    /\ ~Piping
    /\ call' = IF dbError THEN Json(op, 500)
               ELSE IF answer.status # 200 THEN Json(op, answer.status)
               ELSE StreamCall(op, 200, "piping", FALSE, 0)
    /\ UNCHANGED <<requests, arrivals, now, disk, db, pc, body, files, resp>>

\* a chunk of the stream written to res: the first one sends the headers
streamData ==
    /\ Piping
    /\ call' = [call EXCEPT !.headersSent = TRUE,
                            !.bodies = IF call.headersSent THEN @ ELSE @ + 1]
    /\ UNCHANGED <<requests, arrivals, now, disk, db, pc, body, files, resp>>

\* the stream ends, and pipe ends res
streamEnd ==
    /\ Piping
    /\ call' = [call EXCEPT !.stage = "ended", !.headersSent = TRUE,
                            !.bodies = IF call.headersSent THEN @ ELSE @ + 1]
    /\ UNCHANGED <<requests, arrivals, now, disk, db, pc, body, files, resp>>

\* An error handler that answers whether or not the headers are sent.
streamErrorUnguarded ==
    /\ Piping
    /\ call' = [call EXCEPT !.status = 500, !.stage = "done",
                            !.headersSent = TRUE, !.bodies = @ + 1]
    /\ UNCHANGED <<requests, arrivals, now, disk, db, pc, body, files, resp>>

\* readStream.on('error') and archive.on('error'), with the catch block
\* that the rejected archive.finalize() enters: a JSON 500 if the headers
\* are not sent, nothing otherwise.
streamError ==
    /\ Piping
    /\ call' = IF ~call.headersSent
               THEN [call EXCEPT !.status = 500, !.stage = "done",
                                 !.headersSent = TRUE, !.bodies = @ + 1]
               ELSE [call EXCEPT !.stage = "broken"]
    /\ UNCHANGED <<requests, arrivals, now, disk, db, pc, body, files, resp>>

\* the file handler getFileInfo
getFileInfoHandler(id, fileType, dbError) ==
    LET found == findById(id)
        registration == CHOOSE d \in found : TRUE
        fileField == IF fileType = "aadhar" THEN "aadharFile" ELSE "signatureFile"
    IN  /\ ~Piping
        /\ call' = Json("getFileInfo",
                        IF fileType \notin {"aadhar", "signature"} THEN 400
                        ELSE IF dbError THEN 500
                        ELSE IF found = {} THEN 404
                        ELSE IF registration.files[fileField] = None THEN 404
                        ELSE 200)
        /\ UNCHANGED <<requests, arrivals, now, disk, db, pc, body, files, resp>>

StartDownloadFile ==
    \E id \in AdminReqs, fileType \in FileTypeInputs, dbError \in BOOLEAN :
        pipeResponse("downloadFile", downloadFileAnswer(id, fileType), dbError)
StartDownloadAllFiles ==
    \E id \in AdminReqs, dbError \in BOOLEAN :
        pipeResponse("downloadAllFiles", downloadAllFilesAnswer(id), dbError)
GetFileInfo ==
    \E id \in AdminReqs, fileType \in FileTypeInputs, dbError \in BOOLEAN :
        getFileInfoHandler(id, fileType, dbError)

\* the steps of register request r
RequestStep(r) ==
    \/ /\ pc[r] = "start"
       /\ \E parts \in AdminPartSets : \E b \in BodiesWith(parts, FaultBodies) :
            uploadMiddleware(r, b, parts)
    \/ /\ pc[r] \in {"validate", "findByPhone", "findByAadhar", "save"}
       /\ \E fault \in SaveFaults : \E failing \in Unlinks(FilePaths(files[r])) :
            \/ createRegistrationStart(r, failing)
            \/ createRegistrationPhone(r, failing)
            \/ createRegistrationAadhar(r, failing)
            \/ createRegistrationSave(r, fault, failing)

NextRespond ==
    \/ Upload(AdminReqs, AdminPartSets, FaultBodies)
    \/ RegisterStartFailing
    \/ RegisterPhoneFailing
    \/ RegisterAadharFailing
    \/ RegisterSaveFailing
    \/ ~Piping /\ UpdateStatus
    \/ ~Piping /\ DeleteRegistrationFailing
    \/ ~Piping /\ DeleteFileFailing
    \/ GetFileInfo
    \/ StartDownloadFile
    \/ StartDownloadAllFiles
    \/ streamData
    \/ streamEnd
    \/ streamError

\* Node runs every pending continuation of a request, and a stream that
\* feeds res ends or fails.
SpecRespond ==
    /\ Init
    /\ [][NextRespond]_vars
    /\ \A r \in AdminReqs : WF_vars(RequestStep(r))
    /\ WF_vars(streamEnd)

\* ---- the register route from the limiter on ----
\* router.post('/register', rateLimitValidation(15 * 60 * 1000, 3),
\* sanitizeInput, uploadMiddleware, registrationValidation,
\* createRegistration): a request enters the limiter first, and goes on to
\* uploadMiddleware when the limiter calls next(). The route's max of 3 is
\* scaled to RouteMax so that a few requests exhaust it.
RouteMax == 1

\* A route whose limiter lets every request through.
registerRouteUnlimited(r, key) ==
    /\ pc[r] = "arrive"
    /\ rateLimitOff(RateWindow, RouteMax, key)
    /\ pc' = [pc EXCEPT ![r] = "start"]
    /\ UNCHANGED <<now, disk, db, body, files, resp, call>>

\* request r of client `key` in the route's first middleware
registerRoute(r, key) ==
    /\ pc[r] = "arrive"
    /\ rateLimitValidation(RateWindow, RouteMax, key)
    /\ IF arrivals'[Len(arrivals')].next
       THEN /\ pc' = [pc EXCEPT ![r] = "start"]
            /\ UNCHANGED resp
       ELSE /\ pc' = [pc EXCEPT ![r] = "done"]
            /\ resp' = [resp EXCEPT ![r] = Response(429, "Too many registration attempts", Undefined)]
    /\ UNCHANGED <<now, disk, db, body, files, call>>

ArriveRegister ==
    \E r \in Reqs, key \in ClientKeys : registerRoute(r, key)

InitRoute ==
    /\ requests = <<>>
    /\ arrivals = <<>>
    /\ now = 0
    /\ disk = <<>>
    /\ db = {}
    /\ pc = [r \in Reqs |-> "arrive"]
    /\ body = [r \in Reqs |-> None]
    /\ files = [r \in Reqs |-> NoFiles]
    /\ resp = [r \in Reqs |-> None]
    /\ call = NoCall

NextRoute ==
    \/ ArriveRegister
    \/ Upload(Reqs, AdminPartSets, FaultBodies)
    \/ RegisterStart(Reqs)
    \/ RegisterPhone(Reqs)
    \/ RegisterAadhar(Reqs)
    \/ RegisterSave(Reqs)

SpecRoute == InitRoute /\ [][NextRoute]_vars

(* ------------------- config/multer.js: one part at a time ------------- *)

\* The original names a client gives a part: plain names, an upper-case
\* extension, a space and brackets, a character outside the pattern, no
\* extension, a dot file, two extensions, a base of 22 characters, and a
\* name of 256 characters.
LongBase == [i \in 1..22 |-> IF i = 5 THEN "-" ELSE "b"]
LongName == [i \in 1..252 |-> "a"] \o <<".", "p", "n", "g">>
OriginalNames ==
    {PdfName, PngName,
     <<"A", ".", "P", "D", "F">>,
     <<"S", ".", "P", "n", "g">>,
     <<"x", ".", "j", "p", "g">>,
     <<"x", ".", "j", "p", "e", "g">>,
     <<"a", " ", "(", "1", ")", ".", "p", "d", "f">>,
     <<"a", "$", ".", "p", "n", "g">>,
     <<"n", "o", "e", "x", "t">>,
     <<".", "p", "n", "g">>,
     <<"a", ".", "t", "x", "t">>,
     <<"a", ".", "p", "d", "f", ".", "p", "n", "g">>,
     LongBase \o <<".", "j", "p", "g">>,
     LongName}
FieldNames == {"aadharFile", "signatureFile", "photo"}
MimeTypes ==
    {"image/jpeg", "image/jpg", "image/png", "application/pdf", "text/plain"}
FileParts ==
    {[fieldname |-> f, originalname |-> n, mimetype |-> m, size |-> 1] :
        f \in FieldNames, n \in OriginalNames, m \in MimeTypes}

\* multer on one file part: fileFilter, and for an admitted part the name
\* createStorage.filename gives it.
admitPart(file) ==
    /\ call' = [op |-> "fileFilter", file |-> file,
                admitted |-> fileFilter(file),
                filename |-> IF fileFilter(file)
                             THEN filename(file, now, uuidv4(1, file.fieldname))
                             ELSE <<>>]
    /\ UNCHANGED <<requests, arrivals, now, disk, db, pc, body, files, resp>>

AdmitPart == \E file \in FileParts : admitPart(file)

NextFilter == AdmitPart

SpecFilter == Init /\ [][NextFilter]_vars

(* ------------------------------ the claims ---------------------------- *)

\* the paths of request r's stored files that are on disk
OnDisk(r) == FilePaths(files[r]) \cap DOMAIN disk

\* request r is inside createRegistration
InController(r) == pc[r] \in {"validate", "findByPhone", "findByAadhar", "save"}

\* C1: whenever createRegistration answers a request with anything but 201
\* (validator errors, a duplicate found by a lookup, the terms check, save
\* failing with a ValidationError, a duplicate key or any other error), no
\* record of that request is persisted and none of the files the request
\* wrote is on disk when the response is sent (deletions succeeding).
C1_RejectionLeavesNothing ==
    [][\A r \in Reqs :
        (InController(r) /\ pc'[r] = "done" /\ resp'[r].status # 201)
        => /\ {d \in db' : d._id = r} = {}
           /\ FilePaths(files'[r]) \cap DOMAIN disk' = {}]_vars

\* C1 witness: a request that passed all three lookups and lost the insert
\* to a duplicate key has been answered, its two files gone.
C1_Witness ==
    \E r \in Reqs :
        /\ pc[r] = "done" /\ resp[r].status = 400 /\ resp[r].error = "duplicate key"
        /\ Cardinality(FilePaths(files[r])) = 2
        /\ OnDisk(r) = {}
        /\ findById(r) = {}

\* C2: a request that carries only one of the two required files is
\* answered 400 MISSING_FILES, and the file already written is deleted
\* before the response.
C2_MissingFilesCleansUp ==
    \A r \in Reqs :
        (pc[r] = "done" /\ resp[r] # None /\ resp[r].error = "MISSING_FILES")
        => (resp[r].status = 400 /\ OnDisk(r) = {})

\* C2 witness: the MISSING_FILES answer is out and the one file that was
\* sent is still on disk.
C2_Witness ==
    \E r \in Reqs :
        /\ pc[r] = "done" /\ resp[r] # None /\ resp[r].error = "MISSING_FILES"
        /\ files[r].aadharFile # None /\ files[r].signatureFile = None
        /\ OnDisk(r) = {files[r].aadharFile.path}

\* C3: a request whose signatureFile is larger than 2 MiB (and within the
\* 5 MiB multer lets through) is answered 400, and afterwards neither of
\* its files is on disk.
C3_OversizeSignatureCleansUp ==
    \A r \in Reqs :
        (/\ pc[r] = "done" /\ resp[r] # None
         /\ files[r].aadharFile # None
         /\ files[r].signatureFile # None
         /\ files[r].signatureFile.size > SignatureMaxSize
         /\ files[r].signatureFile.size <= AadharMaxSize)
        => (resp[r].status = 400 /\ OnDisk(r) = {})

\* C3 witness: the request with a 3 MiB signature was answered 400 'File
\* validation failed' and both its files are on disk.
C3_Witness ==
    \E r \in Reqs :
        /\ pc[r] = "done" /\ resp[r] = Response(400, "File validation failed", Undefined)
        /\ files[r].signatureFile.size = 3
        /\ Cardinality(OnDisk(r)) = 2

\* C4: in every reachable state, whatever the interleaving of the register
\* requests, no two persisted records share an email, a phone or an Aadhaar
\* number.
C4_UniqueIdentity ==
    \A d1, d2 \in db :
        d1 # d2 => \A f \in UniqueFields : d1[f] # d2[f]

\* C4 witness: two requests with the same email both passed the lookups;
\* one was saved, the other was refused by the unique index on email.
C4_Witness ==
    \E r1, r2 \in Reqs :
        /\ r1 # r2
        /\ resp[r1] = Response(201, "created", Undefined)
        /\ resp[r2] = Response(400, "duplicate key", "email")
        /\ findById(r1) # {}

\* the record of db that a lookup of form value v on field f finds
Reuses(f, v) == \E d \in db : d[f] = v

\* request r is answered 400 naming field f in this step, and the files on
\* disk afterwards are those its upload found there
RefusedAsDuplicate(r, f) ==
    /\ pc'[r] = "done"
    /\ resp'[r].status = 400 /\ resp'[r].field = f
    /\ DOMAIN disk' = DOMAIN disk \ FilePaths(files[r])

RecordOf(id) == CHOOSE d \in findById(id) : TRUE

\* C7: a status update with status 'approved' and a reviewer, on a pending
\* record, succeeds: the persisted status is 'approved', reviewedAt is the
\* time of the call, reviewedBy the reviewer; the notes change only if
\* notes were given.
C7_ApproveSucceeds ==
    [][\A id \in Reqs, reviewedBy \in ReviewerInputs, notes \in NotesInputs :
        (/\ findById(id) # {}
         /\ RecordOf(id).status = "pending"
         /\ updateRegistrationStatus(id, "approved", reviewedBy, notes))
        => /\ call'.status = 200
           /\ \E d \in db' :
                 /\ d._id = id
                 /\ d.status = "approved"
                 /\ d.reviewedAt = <<now>>
                 /\ d.reviewedBy = reviewedBy
                 /\ d.notes = IF notes = Undefined THEN RecordOf(id).notes
                              ELSE notes]_vars

\* C7 witness: the update of a pending record was answered 400 without the
\* record being looked up, and the record is still pending and unreviewed.
C7_Witness ==
    /\ call = AdminAnswer("updateRegistrationStatus", 400, FALSE, FALSE)
    /\ \E d \in db : d.status = "pending" /\ d.reviewedAt = <<>>

\* C8: for every pair s, t of pending, approved, rejected, under_review, a
\* single status update brings a record with status s to status t: no
\* status is terminal.
C8_AnyStatusReachable ==
    [][\A id \in Reqs, t \in StatusEnum, reviewedBy \in ReviewerInputs,
          notes \in NotesInputs :
        (/\ findById(id) # {}
         /\ RecordOf(id).status \in StatusEnum
         /\ updateRegistrationStatus(id, t, reviewedBy, notes))
        => \E d \in db' : d._id = id /\ d.status = t]_vars

\* C8 witness: a status update was answered with an error while a record
\* exists, which stays pending.
C8_Witness ==
    /\ call.op = "updateRegistrationStatus" /\ call.status \in {400, 500}
    /\ db # {}
    /\ \A d \in db : d.status = "pending"

\* C9: a status update whose target is none of pending, approved,
\* rejected, under_review is answered 400 before any lookup or change:
\* neither the in-memory document nor the persisted record has status,
\* reviewedAt, reviewedBy or notes modified.
C9_UnknownStatusRefused ==
    [][\A id \in Reqs, status \in StatusInputs \ StatusEnum,
          reviewedBy \in ReviewerInputs, notes \in NotesInputs :
        (findById(id) # {} /\ updateRegistrationStatus(id, status, reviewedBy, notes))
        => /\ call'.status = 400
           /\ ~call'.looked /\ ~call'.modified
           /\ db' = db]_vars

\* C9 witness: an update to a status outside the four was answered 500
\* after the record was looked up and the in-memory document changed.
C9_Witness ==
    /\ call = AdminAnswer("updateRegistrationStatus", 500, TRUE, TRUE)
    /\ db # {}

\* C10: after any sequence of register, status-update, file-delete and
\* record-delete calls, every persisted record has a status among pending,
\* approved, rejected, under_review, and a newly created record has
\* status pending.
C10_StatusInEnum ==
    /\ [](\A d \in db : d.status \in StatusEnum)
    /\ [][\A d \in db' :
            d._id \notin {e._id : e \in db} => d.status = "pending"]_vars

\* C10 witness: a record is still pending after a file delete was tried on
\* it, and the clock has advanced since it was created.
C10_Witness ==
    /\ call.op = "deleteFile" /\ call.looked /\ call.modified
    /\ \E d \in db : d.status = "pending" /\ d.files.aadharFile.uploadedAt < now

\* the five fields of a File Metadata sub-record
MetaFields == {"originalName", "filename", "path", "size", "mimeType"}

OtherField(fileType) == IF fileType = "aadhar" THEN "signatureFile" ELSE "aadharFile"
SlotField(fileType) == IF fileType = "aadhar" THEN "aadharFile" ELSE "signatureFile"

\* C12: a deleteFile call on an existing record whose slot has metadata
\* removes the slot's file from disk (or finds it already absent), clears
\* the slot's metadata from the persisted record and answers with success;
\* the other slot's metadata and file are unchanged.
C12_DeleteFileClearsSlot ==
    [][\A id \in Reqs, fileType \in {"aadhar", "signature"} :
        (/\ findById(id) # {}
         /\ RecordOf(id).files[SlotField(fileType)] # None
         /\ deleteFile(id, fileType, {}))
        => /\ call'.status = 200
           /\ RecordOf(id).files[SlotField(fileType)].path \notin DOMAIN disk'
           /\ \E d \in db' :
                 /\ d._id = id
                 /\ d.files[SlotField(fileType)] = None
                 /\ d.files[OtherField(fileType)]
                      = RecordOf(id).files[OtherField(fileType)]
           /\ \A p \in DOMAIN disk :
                 p # RecordOf(id).files[SlotField(fileType)].path
                 => (p \in DOMAIN disk' /\ disk'[p] = disk[p])]_vars

\* C12 witness: deleteFile on a record with the slot's metadata answered
\* 500; the Aadhaar file is gone from disk, the record still names it, and
\* the signature file is on disk.
C12_Witness ==
    /\ call.op = "deleteFile" /\ call.status = 500
    /\ \E d \in db :
          /\ d.files.aadharFile # None
          /\ d.files.aadharFile.path \notin DOMAIN disk
          /\ d.files.signatureFile.path \in DOMAIN disk

\* C13: downloadFile distinguishes its failure conditions in this order:
\* an invalid fileType gives 400; a missing record gives 404 'Registration
\* not found'; a record without metadata (or without a path) for the slot
\* gives 404 '<type> file not found'; metadata present but the file absent
\* from disk gives 404 'File not found on server'; only when the file is on
\* disk are the bytes streamed.
C13_DownloadFailureOrder ==
    [][\A id \in Reqs, fileType \in FileTypeInputs :
        downloadFile(id, fileType)
        => LET typeOk == fileType \in {"aadhar", "signature"}
               exists == findById(id) # {}
               slot == RecordOf(id).files[SlotField(fileType)]
               hasMeta == slot # None /\ slot.path # <<>>
           IN  /\ ~typeOk => call'.status = 400
               /\ (typeOk /\ ~exists)
                  => (call'.status = 404 /\ call'.message = "Registration not found")
               /\ (typeOk /\ exists /\ ~hasMeta)
                  => (call'.status = 404 /\ call'.message = "file not found")
               /\ (typeOk /\ exists /\ hasMeta /\ slot.path \notin DOMAIN disk)
                  => (call'.status = 404 /\ call'.message = "File not found on server")
               /\ call'.status = 200
                  <=> (typeOk /\ exists /\ hasMeta /\ slot.path \in DOMAIN disk)
               /\ call'.status = 200 => call'.bytes = disk[slot.path]]_vars

\* C13 witness: a download of a slot whose metadata is in the record but
\* whose file is no longer on disk was answered 404 'File not found on
\* server'.
C13_Witness ==
    /\ call.op = "downloadFile" /\ call.status = 404
    /\ call.message = "File not found on server"
    /\ \E d \in db : ~(DocPaths(d) \subseteq DOMAIN disk)

C15_ArchiveHoldsPresentFiles ==
    [][\A id \in Reqs :
        (findById(id) # {} /\ downloadAllFiles(id))
        => LET present ==
                   {f \in FileFields :
                       /\ RecordOf(id).files[f] # None
                       /\ RecordOf(id).files[f].path \in DOMAIN disk}
               Named(f) == <<IF f = "aadharFile" THEN "aadhar" ELSE "signature",
                             RecordOf(id).files[f].originalName>>
           IN  IF present = {}
               THEN call'.status = 404 /\ call'.entries = {}
               ELSE /\ call'.status = 200
                    /\ call'.entries = {Named(f) : f \in present} \cup {InfoEntry}]_vars

\* C15 witness: an archive was emitted with the signature and the text
\* entry only, the record's Aadhaar file being absent from disk.
C15_Witness ==
    /\ call.op = "downloadAllFiles" /\ call.status = 200
    /\ call.entries = {<<"signature", PngName>>, InfoEntry}
    /\ \E d \in db : d.files.aadharFile.path \notin DOMAIN disk

\* the part multer last handled
Handled == call.op = "fileFilter"

\* C16: fileFilter admits a file if and only if its field name is
\* aadharFile or signatureFile, its declared MIME type is in that field's
\* MIME allow-list, its lower-cased extension is in that field's extension
\* allow-list, its original name is at most 255 characters, and the name
\* contains only letters, digits, whitespace and . _ - ( ) [ ] { };
\* application/pdf and .pdf are admitted for aadharFile and never for
\* signatureFile.
C16_FileFilterAdmits ==
    Handled =>
        LET file == call.file
            name == file.originalname
            ext == toLowerCase(extname(name))
            images == {"image/jpeg", "image/jpg", "image/png"}
            imageExts == {<<".", "j", "p", "g">>, <<".", "j", "p", "e", "g">>,
                          <<".", "p", "n", "g">>}
            pdfExt == <<".", "p", "d", "f">>
            mimeOk == \/ file.fieldname = "aadharFile"
                         /\ file.mimetype \in images \cup {"application/pdf"}
                      \/ file.fieldname = "signatureFile"
                         /\ file.mimetype \in images
            extOk == \/ file.fieldname = "aadharFile" /\ ext \in imageExts \cup {pdfExt}
                     \/ file.fieldname = "signatureFile" /\ ext \in imageExts
            charsOk == \A i \in 1..Len(name) :
                          \/ IsAlnum(name[i])
                          \/ name[i] \in {" ", ".", "_", "-", "(", ")", "[", "]", "{", "}"}
        IN  /\ call.admitted
               <=> (mimeOk /\ extOk /\ Len(name) <= 255 /\ charsOk)
            /\ (file.fieldname = "signatureFile"
                /\ (file.mimetype = "application/pdf" \/ ext = pdfExt))
               => ~call.admitted

\* C16 witness: an Aadhaar part A.PDF declared application/pdf was
\* admitted.
C16_Witness ==
    /\ Handled /\ call.admitted
    /\ call.file.fieldname = "aadharFile"
    /\ call.file.originalname = <<"A", ".", "P", "D", "F">>
    /\ call.file.mimetype = "application/pdf"

\* the format an extension or a MIME type denotes
FormatOfExt(ext) ==
    IF ext \in {<<".", "j", "p", "g">>, <<".", "j", "p", "e", "g">>} THEN "jpeg"
    ELSE IF ext = <<".", "p", "n", "g">> THEN "png"
    ELSE IF ext = <<".", "p", "d", "f">> THEN "pdf"
    ELSE "other"
FormatOfMime(mimetype) ==
    IF mimetype \in {"image/jpeg", "image/jpg"} THEN "jpeg"
    ELSE IF mimetype = "image/png" THEN "png"
    ELSE IF mimetype = "application/pdf" THEN "pdf"
    ELSE "unknown"

\* C17: fileFilter rejects every file whose extension and declared MIME
\* type denote different formats, even when each is on the field's
\* allow-list separately.
C17_MismatchRejected ==
    Handled =>
        (FormatOfExt(toLowerCase(extname(call.file.originalname)))
            # FormatOfMime(call.file.mimetype)
         => ~call.admitted)

\* C17 witness: an Aadhaar part named a.pdf and declared image/png was
\* admitted.
C17_Witness ==
    /\ Handled /\ call.admitted
    /\ call.file.fieldname = "aadharFile"
    /\ call.file.originalname = PdfName
    /\ call.file.mimetype = "image/png"

\* C18: for every original filename that fileFilter admits, the generated
\* storage name is '<timestamp>_<id>_<base><ext>' where ext is the original
\* extension lower-cased and base is the original name with its extension
\* removed, every non-alphanumeric character replaced by '_', truncated to
\* 20 characters; base never contains the extension text, whatever the
\* letter case of the original extension.
C18_StorageName ==
    (Handled /\ call.admitted) =>
        LET name == call.file.originalname
            ext == extname(name)
            stem == SubSeq(name, 1, Len(name) - Len(ext))
            base == [i \in 1..(IF Len(stem) > 20 THEN 20 ELSE Len(stem)) |->
                        IF IsAlnum(stem[i]) THEN stem[i] ELSE "_"]
        IN  /\ Len(call.filename) = 4
            /\ call.filename[1] = now
            /\ call.filename[3] = base
            /\ call.filename[4] = toLowerCase(ext)

\* C18 witness: the admitted part A.PDF was given the base A_PDF before
\* the extension .pdf.
C18_Witness ==
    /\ Handled /\ call.admitted
    /\ call.file.originalname = <<"A", ".", "P", "D", "F">>
    /\ call.filename[3] = <<"A", "_", "P", "D", "F">>
    /\ call.filename[4] = <<".", "p", "d", "f">>

\* ---- C19 ----
\* the storage paths of the files the requests hold at this moment
StoredPaths == UNION {FilePaths(files[r]) : r \in Reqs}
StoredCount ==
    Cardinality({<<r, f>> \in Reqs \X FileFields : files[r][f] # None})

\* C19: any two files stored by the upload pipeline have distinct storage
\* paths, whether they belong to one request or to two concurrently
\* processed requests and whatever their original names: no upload holds
\* the path of a file another upload wrote.
C19_DistinctStoragePaths ==
    \A r1, r2 \in Reqs : \A f1, f2 \in FileFields :
        /\ files[r1][f1] # None
        /\ files[r2][f2] # None
        /\ <<r1, f1>> # <<r2, f2>>
        => files[r1][f1].path # files[r2][f2].path

\* C19 witness: two requests hold an aadhar file under one path, and the
\* disk has one file for the two uploads: the later write replaced the
\* earlier one.
C19_Witness ==
    \E r1, r2 \in Reqs :
        /\ r1 # r2
        /\ files[r1].aadharFile # None
        /\ files[r2].aadharFile # None
        /\ files[r1].aadharFile.path = files[r2].aadharFile.path
        /\ files[r1].aadharFile.path \in DOMAIN disk
        /\ Cardinality(StoredPaths) < StoredCount

\* ---- C20 ----
\* C20: every Aadhaar number on a persisted record is exactly 12 digits,
\* its first digit is one of 2..9, its digits are not all the same, and it
\* is neither 123456789012 nor 987654321098, however the submitted value
\* was written.
C20_StoredAadhaarFormat ==
    \A d \in db :
        LET a == d.aadharNumber
        IN  /\ Len(a) = 12
            /\ \A i \in 1..Len(a) : a[i] \in Digits
            /\ a[1] \notin {"0", "1"}
            /\ \E i \in 1..Len(a) : a[i] # a[1]
            /\ a \notin {Banned1, Banned2}

\* C20 witness: two records are stored, one submitted in groups of four
\* with spaces and one submitted with a letter in front or with hyphens or
\* padded, each holding the twelve digits alone.
C20_Witness ==
    /\ \E d \in db : d.aadharNumber = stripNonDigits(AadharSpaced)
    /\ \E d \in db :
           d.aadharNumber \in {stripNonDigits(AadharHyphened),
                               stripNonDigits(AadharPadded),
                               stripNonDigits(AadharLettered)}

\* ---- C21 ----
\* the document request r hands to save()
SavedDoc(r) == preSave(registrationData(r, body[r], files[r], now))

\* C21: when save() fails with a duplicate key on a field other than
\* email, phone and aadharNumber (the orphaned index registrationId_1),
\* createRegistration answers 500 ORPHANED_INDEX and not the 400 duplicate
\* answer; when it fails with a duplicate key on email, phone or
\* aadharNumber it answers 400 naming a field a persisted record shares
\* with the request; in both cases none of the request's files is on disk
\* when the answer is sent (deletions succeeding) and no record is stored.
C21_DuplicateKeyAnswers ==
    [][\A r \in Reqs :
        (pc[r] = "save" /\ SchemaValid(SavedDoc(r)))
        => /\ (createRegistrationSave(r, "orphaned_index", {})
                /\ UniqueViolations(SavedDoc(r)) = {})
               => /\ resp'[r].status = 500
                  /\ resp'[r].error = "ORPHANED_INDEX"
                  /\ resp'[r].field \notin fieldNames
                  /\ FilePaths(files[r]) \cap DOMAIN disk' = {}
                  /\ db' = db
           /\ (createRegistrationSave(r, "none", {})
                /\ UniqueViolations(SavedDoc(r)) # {})
               => /\ resp'[r].status = 400
                  /\ resp'[r].error = "duplicate key"
                  /\ resp'[r].field \in UniqueViolations(SavedDoc(r))
                  /\ FilePaths(files[r]) \cap DOMAIN disk' = {}
                  /\ db' = db]_vars

\* C21 witness: a request whose insert met the orphaned index was answered
\* 500 ORPHANED_INDEX, its two files gone from the disk and no record of it
\* stored, beside a request that was registered.
C21_Witness ==
    \E r1, r2 \in Reqs :
        /\ resp[r1] = Response(500, "ORPHANED_INDEX", "registrationId")
        /\ Cardinality(FilePaths(files[r1])) = 2 /\ OnDisk(r1) = {}
        /\ findById(r1) = {}
        /\ resp[r2] # None /\ resp[r2].status = 201

\* ---- C22 ----
\* C22: deleteRegistration on an existing record (the database delete
\* succeeding) removes from the disk every file of the record whose unlink
\* does not throw, touches no other file, removes the record and answers
\* 200, whichever of the record's files are already absent and whichever
\* unlinks throw.
C22_DeleteRegistrationBestEffort ==
    [][\A id \in AdminReqs :
        findById(id) # {} =>
            \A failing \in Unlinks(DocPaths(RecordOf(id))) :
                deleteRegistration(id, failing, FALSE)
                => /\ call'.status = 200
                   /\ {d \in db' : d._id = id} = {}
                   /\ db' = db \ findById(id)
                   /\ DOMAIN disk' =
                        DOMAIN disk \ (DocPaths(RecordOf(id)) \ failing)]_vars

\* C22 witness: a registered request's record was deleted with answer 200
\* although its aadhar file is still on disk (its unlink threw); the
\* signature file is gone.
C22_Witness ==
    \E r \in AdminReqs :
        /\ resp[r] # None /\ resp[r].status = 201
        /\ findById(r) = {}
        /\ call = AdminAnswer("deleteRegistration", 200, TRUE, FALSE)
        /\ files[r].aadharFile.path \in DOMAIN disk
        /\ files[r].signatureFile.path \notin DOMAIN disk

\* ---- C23 ----
\* the requests of client k the limiter let through at a time in from..to
Admitted(k, from, to) ==
    {i \in 1..Len(arrivals) :
        /\ arrivals[i].key = k /\ arrivals[i].next
        /\ from <= arrivals[i].at /\ arrivals[i].at <= to}

\* C23: for every client and every interval of time shorter than windowMs
\* (so, all the more, every interval of length windowMs), the limiter
\* lets at most max requests of the client through.
C23_AtMostMaxPerInterval ==
    \A k \in ClientKeys : \A t \in 0..RateMaxTime :
        Cardinality(Admitted(k, t, t + RateWindow - 1)) <= RateMax

\* C23 witness: a client whose window began at 0 had a request let through
\* at the window's last instant and, one tick later, had a new window begun
\* and filled: more than max requests let through within two ticks.
C23_Witness ==
    \E k \in ClientKeys :
        /\ k \in DOMAIN requests
        /\ requests[k] = [count |-> RateMax, firstRequest |-> RateWindow + 1]
        /\ Admitted(k, RateWindow, RateWindow) # {}
        /\ Cardinality(Admitted(k, RateWindow, RateWindow + 1)) > RateMax

\* ---- C24 ----
\* The answer of createRegistration to request r at its present stage when
\* every unlink of the cleanup succeeds, None when the stage does not
\* reject; `fault` is what the database does on the insert.
AnswerUnmasked(r, fault) ==
    CASE pc[r] = "validate" ->
            IF ~registrationValidation(body[r])
            THEN Response(400, "Validation failed", Undefined)
            ELSE IF findByEmail(body[r].email) # {}
            THEN Response(400, "duplicate", "email")
            ELSE None
      [] pc[r] = "findByPhone" ->
            IF findByPhone(body[r].phone) # {}
            THEN Response(400, "duplicate", "phone") ELSE None
      [] pc[r] = "findByAadhar" ->
            IF findByAadhar(body[r].aadharNumber) # {}
            THEN Response(400, "duplicate", "aadharNumber") ELSE None
      [] pc[r] = "save" ->
            IF ~SchemaValid(SavedDoc(r))
            THEN Response(400, "Registration data validation failed", Undefined)
            ELSE IF fault = "error"
            THEN Response(500, "Registration failed", Undefined)
            ELSE IF UniqueViolations(SavedDoc(r)) # {}
            THEN Response(400, "duplicate key",
                          CHOOSE f \in UniqueViolations(SavedDoc(r)) : TRUE)
            ELSE IF fault = "orphaned_index"
            THEN Response(500, "ORPHANED_INDEX", "registrationId")
            ELSE None

\* the step request r takes, for the fault and the throwing unlinks given
StepOf(r, fault, failing) ==
    \/ createRegistrationStart(r, failing)
    \/ createRegistrationPhone(r, failing)
    \/ createRegistrationAadhar(r, failing)
    \/ createRegistrationSave(r, fault, failing)

Since(k, t) ==
    {i \in 1..Len(arrivals) : arrivals[i].key = k /\ arrivals[i].at >= t}

\* The window of every client in the Map: it began with an admitted
\* request at firstRequest, no request in it came later than windowMs after
\* firstRequest, count is the number of its admitted requests, which is at
\* most max, its admitted requests came before its refused ones, and a
\* request was refused only once max were admitted.
WindowInv ==
    \A k \in DOMAIN requests :
        LET first == requests[k].firstRequest
            W == Since(k, first)
        IN  /\ W # {}
            /\ \E i \in W : /\ arrivals[i].at = first /\ arrivals[i].next
                            /\ \A j \in W : i <= j
            /\ \A i \in W : arrivals[i].at - first <= RateWindow
            /\ requests[k].count = Cardinality({i \in W : arrivals[i].next})
            /\ requests[k].count >= 1 /\ requests[k].count <= RateMax
            /\ \A i, j \in W : i < j /\ arrivals[j].next => arrivals[i].next
            /\ (\E i \in W : ~arrivals[i].next) => requests[k].count = RateMax

\* One request of client k reaching the limiter: refused exactly when the
\* window of k is running and full, and then the entry of k stays as it
\* is; admitted into the running window with count one higher; admitted
\* as the first of a new window when k has no entry or the entry is more
\* than windowMs old; and the entry of another client stays as it is, or
\* is dropped when it is more than windowMs old.
WindowStep ==
    Len(arrivals') = Len(arrivals) + 1 =>
        LET a == arrivals'[Len(arrivals')]
            k == a.key
            running == k \in DOMAIN requests
                       /\ now - requests[k].firstRequest <= RateWindow
        IN  /\ k \in DOMAIN requests'
            /\ ~a.next <=> (running /\ requests[k].count = RateMax)
            /\ ~a.next => requests'[k] = requests[k]
            /\ (a.next /\ running)
                => requests'[k] = [requests[k] EXCEPT !.count = @ + 1]
            /\ ~running => requests'[k] = [count |-> 1, firstRequest |-> now]
            /\ \A j \in ClientKeys \ {k} :
                /\ j \in DOMAIN requests' => /\ j \in DOMAIN requests
                                             /\ requests'[j] = requests[j]
                /\ (j \in DOMAIN requests /\ j \notin DOMAIN requests')
                     => now - requests[j].firstRequest > RateWindow

Refused(r) == resp[r] # None /\ resp[r].status = 429

\* C26: the step that answers a register request with 429 is its first and
\* last one and leaves disk, records, req.files and req.body as they are; a
\* request so answered has stored no file, has no record and never stands
\* at a lookup or at the save; and every request the limiter let through,
\* whether it is still in flight, was answered 201 or was rejected later,
\* is counted in its client's count, which no later step of the request
\* changes.
C26_RefusedBeforeUpload ==
    /\ [][\A r \in Reqs :
            (resp[r] = None /\ resp'[r] # None /\ resp'[r].status = 429)
            => /\ pc[r] = "arrive" /\ pc'[r] = "done"
               /\ disk' = disk /\ db' = db /\ files' = files /\ body' = body]_vars
    /\ [](\A r \in Reqs :
            Refused(r)
            => /\ pc[r] = "done"
               /\ files[r] = NoFiles /\ body[r] = None
               /\ \A p \in DOMAIN disk : p[2][2][1] # r
               /\ \A d \in db : d._id # r)
    /\ [](/\ \A k \in DOMAIN requests :
                requests[k].count = Cardinality(Admitted(k, 0, now))
          /\ Cardinality({r \in Reqs : pc[r] # "arrive" /\ ~Refused(r)})
                = Cardinality({i \in 1..Len(arrivals) : arrivals[i].next}))
    /\ [][arrivals' = arrivals => requests' = requests]_vars

\* C26 witness: a client's first request was let through, stored its files
\* and was rejected 400 by createRegistration; it used up the client's
\* count, and the client's next request was answered 429 with no file of
\* its own on disk.
C26_Witness ==
    \E r1, r2 \in Reqs : \E k \in ClientKeys :
        /\ resp[r1] # None /\ resp[r1].status = 400 /\ files[r1] # NoFiles
        /\ Refused(r2)
        /\ DOMAIN requests = {k} /\ requests[k].count = RouteMax
        /\ Len(arrivals) = 2 /\ ~arrivals[2].next

SameButCaseAndPadding(a, b) ==
    \E lead, trail \in 0..Len(a) :
        /\ lead + trail + Len(b) = Len(a)
        /\ \A i \in 1..lead : a[i] = " "
        /\ \A i \in (Len(a) - trail + 1)..Len(a) : a[i] = " "
        /\ \A i \in 1..Len(b) : LowerChar(a[lead + i]) = b[i]

\* the digits of a, in order
RECURSIVE DigitsOf(_)
DigitsOf(a) ==
    IF a = <<>> THEN <<>>
    ELSE IF Head(a) \in Digits THEN <<Head(a)>> \o DigitsOf(Tail(a))
    ELSE DigitsOf(Tail(a))

\* C29: every record is stored with a lower-case email without spaces
\* around it and with phone and Aadhaar number in digits alone; a register
\* request that passed the validators and whose email differs from a stored
\* one only in case and surrounding spaces is rejected 400 for the email by
\* the first lookup; one that got past the email lookup and whose phone has
\* the digits of a stored phone is rejected 400 for the phone; one that got
\* past the phone lookup and whose Aadhaar number has the digits of a stored
\* one is rejected 400 for the Aadhaar number; none of them writes a record,
\* and the values the later lookups see have the digits the client sent.
C29_DuplicatesOnNormalizedValues ==
    /\ [](\A d \in db :
            /\ d.email = toLowerCase(d.email)
            /\ d.email # <<>> => d.email[1] # " " /\ d.email[Len(d.email)] # " "
            /\ \A i \in 1..Len(d.phone) : d.phone[i] \in Digits
            /\ \A i \in 1..Len(d.aadharNumber) : d.aadharNumber[i] \in Digits)
    /\ [][\A r \in Reqs :
            /\ (/\ pc[r] = "validate" /\ pc'[r] # "validate"
                /\ registrationValidation(body[r])
                /\ \E d \in db : SameButCaseAndPadding(body[r].email, d.email))
               => /\ resp'[r] = Response(400, "duplicate", "email")
                  /\ pc'[r] = "done" /\ db' = db
            /\ (pc[r] = "validate" /\ pc'[r] = "findByPhone")
               => /\ DigitsOf(body'[r].phone) = DigitsOf(body[r].phone)
                  /\ DigitsOf(body'[r].aadharNumber) = DigitsOf(body[r].aadharNumber)
            /\ (/\ pc[r] = "findByPhone" /\ pc'[r] # "findByPhone"
                /\ \E d \in db : DigitsOf(body[r].phone) = d.phone)
               => /\ resp'[r] = Response(400, "duplicate", "phone")
                  /\ pc'[r] = "done" /\ db' = db
            /\ (/\ pc[r] = "findByAadhar" /\ pc'[r] # "findByAadhar"
                /\ \E d \in db : DigitsOf(body[r].aadharNumber) = d.aadharNumber)
               => /\ resp'[r] = Response(400, "duplicate", "aadharNumber")
                  /\ pc'[r] = "done" /\ db' = db]_vars

\* C29 witness: one request was registered with its phone number written
\* with a hyphen or a space and stored in digits alone; the other request,
\* which wrote the same digits plainly, was rejected 400 for the phone.
C29_Witness ==
    \E r1, r2 \in Reqs :
        /\ resp[r1] # None /\ resp[r1].status = 201
        /\ \E d \in db : d._id = r1 /\ d.phone = PhoneA /\ d.email = EmailB
        /\ resp[r2] = Response(400, "duplicate", "phone")

\* ---- C30 ----
\* C30: when createRegistration rejects request r and runs its cleanup,
\* no path that leaves the disk in that step is referred to by a persisted
\* record or held by another request that is still being processed,
\* whatever the interleaving of the requests.
C30_CleanupOnlyOwnFiles ==
    [][\A r \in Reqs :
        (InController(r) /\ pc'[r] = "done" /\ resp'[r].status # 201)
        => \A p \in DOMAIN disk \ DOMAIN disk' :
            /\ \A d \in db' : p \notin DocPaths(d)
            /\ \A o \in Reqs \ {r} :
                 InController(o) => p \notin FilePaths(files[o])]_vars

\* C30 witness: a request was registered and its record refers to two
\* paths; another request, whose files were stored under the same paths,
\* was rejected 400, and the paths of the record are gone from the disk.
C30_Witness ==
    \E r1, r2 \in Reqs :
        /\ r1 # r2
        /\ resp[r1] # None /\ resp[r1].status = 201
        /\ resp[r2] # None /\ resp[r2].status = 400
        /\ findById(r1) # {}
        /\ Cardinality(DocPaths(RecordOf(r1))) = 2
        /\ DocPaths(RecordOf(r1)) = FilePaths(files[r2])
        /\ DocPaths(RecordOf(r1)) \cap DOMAIN disk = {}

====
